---- MODULE Spec2Model ----
(***************************************************************************)
(* Model of the collaboration hub of ai-kms:                               *)
(*   SessionManager (documents, register/unregister/broadcast channels,    *)
(*   sm.mu, awareness), its event loop, the cleanup sweeper, Shutdown,     *)
(*   the connection handler with sendInitialState, and the two pumps of    *)
(*   every Session.  Every goroutine is a process with a program counter;  *)
(*   an unbuffered channel operation is a rendezvous of the sender's and   *)
(*   the receiver's step, a buffered one an append to a bounded sequence.  *)
(*   Steps of one goroutine that no other goroutine can observe (a skipped *)
(*   loop iteration, a lock taken and released around one read) are merged *)
(*   into the neighbouring step.                                           *)
(***************************************************************************)
EXTENDS Integers, Sequences, FiniteSets, TLC

\* ---------------------------------------------------------------- bounds
\* Capacity of Session.Send (256 in the source), scaled down.
SendCap == 1
\* Capacity of sm.broadcast (256 in the source), scaled down.
BroadcastCap == 1
\* Number of frames the clients send in one behaviour.
MaxPayloads == 1
\* Longest Update Log history present before the first connection.
MaxHistory == 2
\* Number of UpdateAwareness calls in one behaviour.
MaxAwareness == 1
\* The same three limits where the order of delivery is looked at: two
\* elements must fit a channel for their order to matter.
FifoSendCap == 2
FifoBroadcastCap == 2
FifoPayloads == 2

\* The connections, named in the order in which they arrive.
Sessions == {"s1", "s2", "s3"}
Earlier(s) == {x \in Sessions : (x = "s1" /\ s # "s1") \/ (x = "s2" /\ s = "s3")}
Docs == {"d1", "d2"}
AwStates == {"st1", "st2"}
NoSession == "none"
NoMsg == [type |-> "none", from |-> "none", seq |-> 0]

\* Session.ClientID: taken from the client_id query parameter, so two
\* sessions may carry the same number (s1 and s2 do).
ClientID(s) == IF s = "s3" THEN 2 ELSE 1
ClientIDs == {ClientID(s) : s \in Sessions}

\* The rooms the connections ask for: one room for all, or two rooms.
DocConfigs ==
  { [s \in Sessions |-> "d1"],
    [s \in Sessions |-> IF s = "s3" THEN "d2" ELSE "d1"],
    [s \in Sessions |-> IF s = "s1" THEN "d1" ELSE "d2"] }

VARIABLES
  docOf,       \* Session.DocumentID of every session
  yjsRepo,     \* sm.yjsRepo != nil (SetYjsRepository has been called)
  limits,      \* cap(session.Send), cap(sm.broadcast), frames the clients send
  documents,   \* sm.documents: documentID -> set of sessions
  mu,          \* the goroutine holding sm.mu for writing, or "none"
  awareness,   \* sm.awareness: documentID -> clientID -> state
  done,        \* sm.done is closed
  broadcast,   \* contents of the buffered channel sm.broadcast
  hub,         \* the event loop goroutine of Start
  Send,        \* contents of every session.Send
  sendClosed,  \* session.Send has been closed
  enqueued,    \* history: everything sent on session.Send, and by whom
  connClosed,  \* session.Conn has been closed
  handler,     \* position of HandleDocumentConnection for the session
  sync,        \* sendInitialState: updates read, still to send, sent;
               \* the awareness map as it was when GetAwareness returned
  readPump,    \* position of ReadPump
  readMsg,     \* the frame ReadPump is forwarding
  writePump,   \* position of WritePump
  updateLog,   \* yjs_updates rows per document, in created_at order
  sweeper,     \* cleanupLoop / cleanup
  shutdown,    \* Shutdown
  panicked,    \* the goroutine that panicked (the process is gone), or "none"
  nsent,       \* frames received from clients so far
  naware       \* UpdateAwareness calls so far

\* Groups of variables, for the frame conditions.
static == <<docOf, yjsRepo, limits>>
registry == <<documents, mu>>
queues == <<Send, sendClosed, enqueued>>
pumps == <<readPump, readMsg, writePump>>
initial == <<handler, sync>>
loops == <<sweeper, shutdown>>
store == <<updateLog, nsent>>
aware == <<awareness, naware>>

vars == <<static, registry, queues, pumps, initial, loops, store, aware,
          done, broadcast, hub, connClosed, panicked>>

\* ------------------------------------------------------------- helpers
Put(f, k, v) == [x \in (DOMAIN f) \cup {k} |-> IF x = k THEN v ELSE f[x]]
Del(f, k) == [x \in (DOMAIN f) \ {k} |-> f[x]]
EmptyMap == [x \in {} |-> 0]

\* sm.documents[d] as Go reads it: nil (no member) when the key is absent.
Room(d) == IF d \in DOMAIN documents THEN documents[d] ELSE {}
Registered == UNION {documents[d] : d \in DOMAIN documents}

JoinMsg(s) == [type |-> "join", from |-> s, seq |-> 0]
LeaveMsg(s) == [type |-> "leave", from |-> s, seq |-> 0]
UpdateMsg(s, k) == [type |-> "update", from |-> s, seq |-> k]
AwarenessMsg == [type |-> "awareness", from |-> "hub", seq |-> 0]

\* What a client can put into a frame: a message of one of the types of
\* models/session.go lines 51-62 (sync and update as "update", awareness,
\* awareness query, join, leave), or bytes that are no message at all, of
\* any length.  The k-th frame read by the server carries seq = k > 0.
FrameKinds == {"update", "awareness", "query", "join", "leave", "malformed"}
Frame(s, k, kind) == [type |-> kind, from |-> s, seq |-> k]
ClientMade(m) == m.from \in Sessions /\ m.seq > 0
HistoryOf(n) == [i \in 1..n |-> UpdateMsg("log", i)]

\* BroadcastMessage{DocumentID, Message, Sender}
BroadcastMessage(d, m, s) == [doc |-> d, msg |-> m, sender |-> s]
NoBroadcast == BroadcastMessage("none", NoMsg, NoSession)

HubIdle == [pc |-> "select", session |-> NoSession, bmsg |-> NoBroadcast,
            todo |-> {}, snap |-> {}, delivered |-> {}]
SweeperIdle == [pc |-> "idle", todo |-> {}, session |-> NoSession]
NoSync == [all |-> <<>>, todo |-> <<>>, sent |-> <<>>, aware |-> EmptyMap,
           err |-> FALSE]

\* The state after NewSessionManager and Start, before any connection, for
\* a given configuration (repository wired or not), stored history and
\* channel capacities.
InitOf(repo, histories, lim) ==
  /\ docOf \in DocConfigs
  /\ yjsRepo = repo
  /\ limits = lim
  /\ documents = EmptyMap
  /\ awareness = EmptyMap
  /\ mu = "none"
  /\ done = FALSE
  /\ broadcast = <<>>
  /\ hub = HubIdle
  /\ Send = [s \in Sessions |-> <<>>]
  /\ sendClosed = [s \in Sessions |-> FALSE]
  /\ enqueued = [s \in Sessions |-> <<>>]
  /\ connClosed = [s \in Sessions |-> FALSE]
  /\ handler = [s \in Sessions |-> "idle"]
  /\ sync = [s \in Sessions |-> NoSync]
  /\ readPump = [s \in Sessions |-> "off"]
  /\ readMsg = [s \in Sessions |-> NoMsg]
  /\ writePump = [s \in Sessions |-> "off"]
  /\ \E n \in histories :
       updateLog = [d \in Docs |-> IF d = "d1" THEN HistoryOf(n) ELSE <<>>]
  /\ sweeper = SweeperIdle
  /\ shutdown = [pc |-> "idle", todo |-> {}]
  /\ panicked = "none"
  /\ nsent = 0
  /\ naware = 0

\* The limits of the scaled-down system.
Limits == [send |-> SendCap, broadcast |-> BroadcastCap, frames |-> MaxPayloads]
InitWith(repo, histories) == InitOf(repo, histories, Limits)

\* A lock that is granted whoever holds it.
Unlocked_Always == TRUE

\* sm.mu.Lock() and sm.mu.RLock() return when no goroutine holds sm.mu for
\* writing (readers hold it only around one read and are not recorded).
Unlocked == mu = "none"

\* A panic in any goroutine ends the process: nothing runs afterwards.
Running == panicked = "none"
Panic(goroutine) == panicked' = goroutine /\ UNCHANGED <<static, registry, queues, pumps,
           initial, loops, store, aware, done, broadcast, hub, connClosed>>

\* ------------------------------------------- SessionManager: pure parts
\* A Register that adds the session to every room.
RegisterRoom_EveryRoom(docs, s, d) ==
  [x \in Docs |-> (IF x \in DOMAIN docs THEN docs[x] ELSE {}) \cup {s}]

\* handleRegister, lines 123-127: create the room if absent, add the session.
RegisterRoom(docs, s, d) ==
  Put(docs, d, (IF d \in DOMAIN docs THEN docs[d] ELSE {}) \cup {s})

\* An Unregister that does not look the session up in its room.
IsMember_Always(docs, s, d) == TRUE

\* handleUnregister, lines 153-154: the session is in its document's room.
IsMember(docs, s, d) == d \in DOMAIN docs /\ s \in docs[d]

\* An Unregister that leaves the emptied room in the registry.
UnregisterRoom_KeepsEmpty(docs, s, d) ==
  IF d \notin DOMAIN docs THEN docs ELSE Put(docs, d, docs[d] \ {s})

\* handleUnregister, lines 155-161: delete the session, drop an empty room.
UnregisterRoom(docs, s, d) ==
  IF d \notin DOMAIN docs THEN docs
  ELSE IF docs[d] \ {s} = {} THEN Del(docs, d)
  ELSE Put(docs, d, docs[d] \ {s})

\* An Unregister that leaves the awareness entry in place.
UnregisterAwareness_Keeps(aw, d, c) == aw

\* handleUnregister, lines 167-171: delete(aware, session.ClientID).
UnregisterAwareness(aw, d, c) ==
  IF d \in DOMAIN aw THEN Put(aw, d, Del(aw[d], c)) ELSE aw

\* A fan-out that does not skip the sender.
SkipSender_Never(session, sender) == FALSE

\* handleBroadcast, lines 199-201: "Skip sender if specified".
SkipSender(session, sender) == sender # NoSession /\ session = sender

\* handleBroadcast, lines 203-210: the non-blocking send has room.
CanEnqueue(q) == Len(q) < limits.send

\* A channel that hands out the newest element first.
ChanSend_InFront(ch, m) == <<m>> \o ch

\* A send on a buffered channel: the element goes behind those waiting.
ChanSend(ch, m) == Append(ch, m)
\* The channel has room: the send does not block.
HasRoom(ch) == Len(ch) < limits.broadcast

\* The history of a queue after a send by the hub or by the handler.
Enqueued(s, m, by) == [enqueued EXCEPT ![s] = Append(@, [msg |-> m, by |-> by])]

\* A sweep that empties the registry itself.
RemoveEmptyRooms_RemovesAll(docs) == EmptyMap

\* cleanup, lines 289-292: rooms found empty are deleted.
RemoveEmptyRooms(docs) == [d \in {x \in DOMAIN docs : docs[x] # {}} |-> docs[d]]

\* GetAwareness, lines 251-256: sm.awareness[documentID]; nil when absent.
GetAwareness(documentID) ==
  IF documentID \in DOMAIN awareness THEN awareness[documentID] ELSE EmptyMap
AwarenessIsNil(documentID) == documentID \notin DOMAIN awareness

\* ------------------------------------------------- the hub's event loop
\* Start, line 95: case <-sm.done.
HubDone ==
  /\ Running /\ hub.pc = "select" /\ done
  /\ hub' = [hub EXCEPT !.pc = "stopped"]
  /\ UNCHANGED <<static, registry, queues, pumps, initial, loops, store,
                 aware, done, broadcast, connClosed, panicked>>

\* HandleDocumentConnection, lines 90-100, and Start, line 99: a connection
\* arrives, the session is created and handed to the hub on the unbuffered
\* sm.register; the handler goes on to sendInitialState.
HandleDocumentConnection(s) ==
  /\ Running /\ hub.pc = "select" /\ handler[s] = "idle"
  /\ \A x \in Earlier(s) : handler[x] # "idle"
  /\ hub' = [hub EXCEPT !.pc = "reg_lock", !.session = s]
  /\ handler' = [handler EXCEPT ![s] = "initial_state"]
  /\ UNCHANGED <<static, registry, queues, pumps, sync, loops, store, aware,
                 done, broadcast, connClosed, panicked>>

\* handleRegister, lines 119-127: sm.mu.Lock(), then the room update.
handleRegister_Add ==
  /\ Running /\ hub.pc = "reg_lock" /\ Unlocked
  /\ mu' = "hub"
  /\ documents' = RegisterRoom(documents, hub.session, docOf[hub.session])
  /\ hub' = [hub EXCEPT !.pc = "reg_send"]
  /\ UNCHANGED <<static, queues, pumps, initial, loops, store, aware, done,
                 broadcast, connClosed, panicked>>

\* handleRegister, lines 141-146: sm.broadcast <- join (blocks while the
\* channel is full), then the deferred sm.mu.Unlock().
handleRegister_Announce ==
  /\ Running /\ hub.pc = "reg_send" /\ HasRoom(broadcast)
  /\ broadcast' = ChanSend(broadcast,
        BroadcastMessage(docOf[hub.session], JoinMsg(hub.session), hub.session))
  /\ mu' = "none"
  /\ hub' = HubIdle
  /\ UNCHANGED <<static, documents, queues, pumps, initial, loops, store,
                 aware, done, connClosed, panicked>>

\* Start, line 102: case session := <-sm.unregister, the rendezvous with
\* ReadPump's deferred send (line 323); ReadPump then closes the connection
\* (line 324) and ends.
HubRecvUnregisterFromReadPump(s) ==
  /\ Running /\ hub.pc = "select" /\ readPump[s] = "unregister"
  /\ hub' = [hub EXCEPT !.pc = "unreg_lock", !.session = s]
  /\ readPump' = [readPump EXCEPT ![s] = "done"]
  /\ connClosed' = [connClosed EXCEPT ![s] = TRUE]
  /\ UNCHANGED <<static, registry, queues, readMsg, writePump, initial,
                 loops, store, aware, done, broadcast, panicked>>

\* Start, line 102, the rendezvous with cleanup's send (line 285); cleanup
\* goes on with its range, still holding sm.mu.
HubRecvUnregisterFromCleanup ==
  /\ Running /\ hub.pc = "select" /\ sweeper.pc = "send"
  /\ hub' = [hub EXCEPT !.pc = "unreg_lock", !.session = sweeper.session]
  /\ sweeper' = [sweeper EXCEPT !.pc = "range", !.session = NoSession]
  /\ UNCHANGED <<static, registry, queues, pumps, initial, shutdown, store,
                 aware, done, broadcast, connClosed, panicked>>

\* handleUnregister, lines 150-164: sm.mu.Lock(); for a member: delete it,
\* close(session.Send), drop the empty room.  For a session that is not in
\* its room the function returns at once.  close of a closed channel panics.
handleUnregister_Remove ==
  /\ Running /\ hub.pc = "unreg_lock" /\ Unlocked
  /\ LET s == hub.session
         d == docOf[s]
     IN IF IsMember(documents, s, d)
        THEN IF sendClosed[s]
             THEN Panic("hub")
             ELSE /\ documents' = UnregisterRoom(documents, s, d)
                  /\ sendClosed' = [sendClosed EXCEPT ![s] = TRUE]
                  /\ mu' = "hub"
                  /\ hub' = [hub EXCEPT !.pc = "unreg_aware"]
                  /\ UNCHANGED <<static, Send, enqueued, pumps, initial,
                                 loops, store, aware, done, broadcast,
                                 connClosed, panicked>>
        ELSE /\ hub' = HubIdle
             /\ UNCHANGED <<static, registry, queues, pumps, initial, loops,
                            store, aware, done, broadcast, connClosed,
                            panicked>>

\* handleUnregister, lines 167-171: the awareness entry, under sm.awareMu.
handleUnregister_Awareness ==
  /\ Running /\ hub.pc = "unreg_aware"
  /\ awareness' = UnregisterAwareness(awareness, docOf[hub.session],
                                      ClientID(hub.session))
  /\ hub' = [hub EXCEPT !.pc = "unreg_send"]
  /\ UNCHANGED <<static, registry, queues, pumps, initial, loops, store,
                 naware, done, broadcast, connClosed, panicked>>

\* handleUnregister, lines 182-186: sm.broadcast <- leave with Sender nil
\* (blocks while the channel is full), then the deferred sm.mu.Unlock().
handleUnregister_Announce ==
  /\ Running /\ hub.pc = "unreg_send" /\ HasRoom(broadcast)
  /\ broadcast' = ChanSend(broadcast,
        BroadcastMessage(docOf[hub.session], LeaveMsg(hub.session), NoSession))
  /\ mu' = "none"
  /\ hub' = HubIdle
  /\ UNCHANGED <<static, documents, queues, pumps, initial, loops, store,
                 aware, done, connClosed, panicked>>

\* Start, line 105: case msg := <-sm.broadcast.
HubRecvBroadcast ==
  /\ Running /\ hub.pc = "select" /\ broadcast # <<>>
  /\ hub' = [hub EXCEPT !.pc = "bc_rlock", !.bmsg = Head(broadcast)]
  /\ broadcast' = Tail(broadcast)
  /\ UNCHANGED <<static, registry, queues, pumps, initial, loops, store,
                 aware, done, connClosed, panicked>>

\* handleBroadcast, lines 193-195: sessions := sm.documents[msg.DocumentID]
\* under the read lock.  snap and delivered record, for the broadcast in
\* hand, the member set read here and the queues it was enqueued on.
handleBroadcast_Read ==
  /\ Running /\ hub.pc = "bc_rlock" /\ Unlocked
  /\ hub' = [hub EXCEPT !.pc = "bc_range",
                        !.todo = Room(hub.bmsg.doc),
                        !.snap = Room(hub.bmsg.doc),
                        !.delivered = {}]
  /\ UNCHANGED <<static, registry, queues, pumps, initial, loops, store,
                 aware, done, broadcast, connClosed, panicked>>

\* handleBroadcast, lines 197-211: one iteration of the range loop for a
\* session that is not skipped (Go ranges over a map in an unspecified
\* order).  A send on a closed channel panics, also inside a select with a
\* default case.  With the queue full, line 209 runs sm.unregister <-
\* session on the hub's own goroutine: sm.unregister is unbuffered and is
\* received nowhere but in Start's select (line 102), which this goroutine
\* is not in, so no step of any goroutine leaves pc = "bc_unregister".
handleBroadcast_Visit(session) ==
  /\ Running /\ hub.pc = "bc_range" /\ session \in hub.todo
  /\ ~SkipSender(session, hub.bmsg.sender)
  /\ IF sendClosed[session]
     THEN Panic("hub")
     ELSE IF CanEnqueue(Send[session])
     THEN /\ Send' = [Send EXCEPT ![session] = Append(@, hub.bmsg.msg)]
          /\ enqueued' = Enqueued(session, hub.bmsg.msg, "hub")
          /\ hub' = [hub EXCEPT !.todo = @ \ {session},
                                !.delivered = @ \cup {session}]
          /\ UNCHANGED <<static, registry, sendClosed, pumps, initial, loops,
                         store, aware, done, broadcast, connClosed,
                         panicked>>
     ELSE /\ hub' = [hub EXCEPT !.pc = "bc_unregister", !.session = session,
                                !.todo = @ \ {session}]
          /\ UNCHANGED <<static, registry, queues, pumps, initial, loops,
                         store, aware, done, broadcast, connClosed,
                         panicked>>

\* handleBroadcast, line 212: every session left in the range is skipped
\* (it is the sender); back to the select.
handleBroadcast_Return ==
  /\ Running /\ hub.pc = "bc_range"
  /\ \A session \in hub.todo : SkipSender(session, hub.bmsg.sender)
  /\ hub' = HubIdle
  /\ UNCHANGED <<static, registry, queues, pumps, initial, loops, store,
                 aware, done, broadcast, connClosed, panicked>>


\* ---------------------------------------------- awareness store (API)
\* UpdateAwareness, lines 239-248.  Nothing in the repository calls it; it
\* is the exported entry point, called here with any arguments.
UpdateAwareness(documentID, clientID, state) ==
  /\ Running /\ naware < MaxAwareness
  /\ awareness' = Put(awareness, documentID,
                      Put(GetAwareness(documentID), clientID, state))
  /\ naware' = naware + 1
  /\ UNCHANGED <<static, registry, queues, pumps, initial, loops, store,
                 done, broadcast, hub, connClosed, panicked>>

\* ------------------------------------------------- connection handler
\* HandleDocumentConnection, lines 107-108: go WritePump, go ReadPump.
StartPumps(s) ==
  /\ handler' = [handler EXCEPT ![s] = "running"]
  /\ readPump' = [readPump EXCEPT ![s] = "read"]
  /\ writePump' = [writePump EXCEPT ![s] = "write"]

\* sendInitialState, lines 136-148: GetAwareness; with a nil map the
\* function returns and the pumps are started, otherwise the map is
\* marshalled and sent with a blocking send.  GetAwareness returns the map
\* of the store itself (line 255): what the caller holds is whatever the
\* store holds for the document later on; sync[s].aware keeps what the map
\* held when it was returned.
AfterReplay(s) ==
  IF AwarenessIsNil(docOf[s])
  THEN StartPumps(s) /\ UNCHANGED sync
  ELSE /\ handler' = [handler EXCEPT ![s] = "aware_send"]
       /\ sync' = [sync EXCEPT ![s].aware = GetAwareness(docOf[s])]
       /\ UNCHANGED <<readPump, writePump>>

\* The contents of the map the handler holds after line 140.
HeldAwareness(s) == GetAwareness(docOf[s])

\* A read of the log that misses its newest row.
GetAllUpdates_MissesLast(documentID) ==
  SubSeq(updateLog[documentID], 1, Len(updateLog[documentID]) - 1)

\* GetAllUpdates, yjs_repo.go lines 53-66: the rows of the document in
\* created_at order, as they are when the query runs.
GetAllUpdates(documentID) == updateLog[documentID]

\* sendInitialState, lines 118-123: without a repository the replay is
\* skipped; GetAllUpdates returns the rows of the document in created_at
\* order, or an error, on which the function returns (sync[s].err keeps
\* that it did).
sendInitialState_Begin(s, ok) ==
  /\ Running /\ handler[s] = "initial_state"
  /\ IF ~yjsRepo
     THEN ok /\ AfterReplay(s)
     ELSE IF ok
     THEN /\ sync' = [sync EXCEPT ![s] = [all |-> GetAllUpdates(docOf[s]),
                                          todo |-> GetAllUpdates(docOf[s]),
                                          sent |-> <<>>,
                                          aware |-> EmptyMap,
                                          err |-> FALSE]]
          /\ handler' = [handler EXCEPT ![s] = "replay"]
          /\ UNCHANGED <<readPump, writePump>>
     ELSE StartPumps(s) /\ sync' = [sync EXCEPT ![s].err = TRUE]
  /\ UNCHANGED <<static, registry, queues, readMsg, loops, store, aware,
                 done, broadcast, hub, connClosed, panicked>>

\* sendInitialState, lines 127-134: one iteration; the send is non-blocking
\* and an update that finds the queue full is dropped (line 132).
sendInitialState_Replay(s) ==
  /\ Running /\ handler[s] = "replay" /\ sync[s].todo # <<>>
  /\ IF sendClosed[s]
     THEN Panic("handler")
     ELSE /\ IF CanEnqueue(Send[s])
             THEN /\ Send' = [Send EXCEPT ![s] = Append(@, Head(sync[s].todo))]
                  /\ enqueued' = Enqueued(s, Head(sync[s].todo), "handler")
                  /\ sync' = [sync EXCEPT ![s].todo = Tail(@),
                                          ![s].sent = Append(@, Head(sync[s].todo))]
             ELSE /\ sync' = [sync EXCEPT ![s].todo = Tail(@)]
                  /\ UNCHANGED <<Send, enqueued>>
          /\ UNCHANGED <<static, registry, sendClosed, pumps, handler, loops,
                         store, aware, done, broadcast, hub, connClosed, panicked>>

\* sendInitialState, lines 136-140: the loop is over.
sendInitialState_GetAwareness(s) ==
  /\ Running /\ handler[s] = "replay" /\ sync[s].todo = <<>>
  /\ AfterReplay(s)
  /\ UNCHANGED <<static, registry, queues, readMsg, loops, store,
                 aware, done, broadcast, hub, connClosed, panicked>>

\* sendInitialState, line 146: session.Send <- awareData, a blocking send
\* (WritePump is not running yet); then the pumps are started.
sendInitialState_SendAwareness(s) ==
  /\ Running /\ handler[s] = "aware_send"
  /\ IF sendClosed[s]
     THEN Panic("handler")
     ELSE /\ CanEnqueue(Send[s])
          /\ Send' = [Send EXCEPT ![s] = Append(@, AwarenessMsg)]
          /\ enqueued' = Enqueued(s, AwarenessMsg, "handler")
          /\ StartPumps(s)
          /\ UNCHANGED <<static, registry, sendClosed, readMsg, sync, loops,
                         store, aware, done, broadcast, hub, connClosed, panicked>>

\* ------------------------------------------------------------ ReadPump
\* ReadPump, lines 331 and 344: LastActiveAt = now.  A sweep that has not
\* reached the session yet no longer finds it stale.
Touch(s) == sweeper' = [sweeper EXCEPT !.todo = @ \ {s}]

\* A ReadPump that goes back to reading when the append has failed.
AfterStore_SkipOnFailure(stored) == IF stored THEN "broadcast" ELSE "read"

\* ReadPump, lines 355-363: whatever StoreUpdate returned (an error is only
\* logged), and without a repository, the next statement is Broadcast.
AfterStore(stored) == "broadcast"

\* ReadPump, lines 336-360: a frame arrives; LastActiveAt = now; with a
\* repository, StoreUpdate appends it to the log or fails (logged only).
\* The frame is not looked into: whatever its content, the bytes go to
\* StoreUpdate and to Broadcast.
ReadPump_ReadFrame(s, stored, kind) ==
  /\ Running /\ readPump[s] = "read" /\ ~connClosed[s]
  /\ nsent < limits.frames
  /\ stored => yjsRepo
  /\ nsent' = nsent + 1
  /\ Touch(s)
  /\ readMsg' = [readMsg EXCEPT ![s] = Frame(s, nsent + 1, kind)]
  /\ updateLog' = IF stored
                  THEN [updateLog EXCEPT ![docOf[s]] =
                          Append(@, Frame(s, nsent + 1, kind))]
                  ELSE updateLog
  /\ readPump' = [readPump EXCEPT ![s] = AfterStore(stored)]
  /\ UNCHANGED <<static, registry, queues, writePump, initial, shutdown,
                 aware, done, broadcast, hub, connClosed, panicked>>

\* ReadPump with a document update in the frame.
ReadPump_Read(s, stored) == ReadPump_ReadFrame(s, stored, "update")

\* Broadcast, lines 215-221, called from ReadPump line 363 with the session
\* as sender: sm.broadcast <- msg, blocking while the channel is full.
Broadcast(s) ==
  /\ Running /\ readPump[s] = "broadcast" /\ HasRoom(broadcast)
  /\ broadcast' = ChanSend(broadcast, BroadcastMessage(docOf[s], readMsg[s], s))
  /\ readMsg' = [readMsg EXCEPT ![s] = NoMsg]
  /\ readPump' = [readPump EXCEPT ![s] = "read"]
  /\ UNCHANGED <<static, registry, queues, writePump, initial, loops, store,
                 aware, done, hub, connClosed, panicked>>

\* ReadPump, lines 329-333: a pong arrives; LastActiveAt = now.
ReadPump_Pong(s) ==
  /\ Running /\ readPump[s] = "read" /\ ~connClosed[s]
  /\ s \in sweeper.todo
  /\ Touch(s)
  /\ UNCHANGED <<static, registry, queues, pumps, initial, shutdown, store,
                 aware, done, broadcast, hub, connClosed, panicked>>

\* ReadPump, lines 336-342 and 322-323: ReadMessage fails (the client went
\* away, the read deadline passed, or the connection was closed); the
\* deferred function waits to send on the unbuffered sm.unregister.
ReadPump_Error(s) ==
  /\ Running /\ readPump[s] = "read"
  /\ readPump' = [readPump EXCEPT ![s] = "unregister"]
  /\ UNCHANGED <<static, registry, queues, readMsg, writePump, initial,
                 loops, store, aware, done, broadcast, hub, connClosed, panicked>>

\* ----------------------------------------------------------- WritePump
\* WritePump, lines 381-403: a message is received from Send and written
\* with everything else queued (lines 396-399); a write on a closed
\* connection fails and the pump returns.
WritePump_Write(s) ==
  /\ Running /\ writePump[s] = "write" /\ Send[s] # <<>>
  /\ Send' = [Send EXCEPT ![s] = <<>>]
  /\ IF connClosed[s]
     THEN writePump' = [writePump EXCEPT ![s] = "done"]
     ELSE UNCHANGED writePump
  /\ UNCHANGED <<static, registry, sendClosed, enqueued, readPump, readMsg,
                 initial, loops, store, aware, done, broadcast, hub,
                 connClosed, panicked>>

\* A write loop that returns on a failed write only.
WriteLoopEnds_OnWriteErrorOnly(s) == connClosed[s]

\* WritePump, lines 381-387 and 405-409: the receive from Send reports the
\* channel closed once it is drained (!ok); the ping fails on a closed
\* connection.
WriteLoopEnds(s) == (Send[s] = <<>> /\ sendClosed[s]) \/ connClosed[s]

\* WritePump, lines 383-387 and 374-377: Send is closed and drained; or,
\* lines 405-409, the ping fails on a closed connection.  The pump returns
\* and closes the connection.
WritePump_Exit(s) ==
  /\ Running /\ writePump[s] = "write"
  /\ WriteLoopEnds(s)
  /\ writePump' = [writePump EXCEPT ![s] = "done"]
  /\ connClosed' = [connClosed EXCEPT ![s] = TRUE]
  /\ UNCHANGED <<static, registry, queues, readPump, readMsg, initial,
                 loops, store, aware, done, broadcast, hub, panicked>>

\* ------------------------------------------------------------- sweeper
\* cleanup, lines 278-283: a session is stale when now, read once at line
\* 278, is more than the timeout after its LastActiveAt.  Which sessions
\* are, is for the clock to say: any set of the registered ones.
StaleSets == SUBSET Registered

\* cleanupLoop, lines 263-270, and cleanup, lines 275-279: the ticker fires,
\* cleanup takes sm.mu and reads the clock.  todo holds the stale sessions
\* the ranges have not reached yet; the others are passed over.
cleanupLoop_Tick ==
  /\ Running /\ sweeper.pc = "idle" /\ Unlocked
  /\ mu' = "sweeper"
  /\ \E stale \in StaleSets :
       sweeper' = [sweeper EXCEPT !.pc = "range", !.todo = stale]
  /\ UNCHANGED <<static, documents, queues, pumps, initial, shutdown, store,
                 aware, done, broadcast, hub, connClosed, panicked>>

\* cleanupLoop, lines 265-266: done is closed, the loop returns.
cleanupLoop_Done ==
  /\ Running /\ sweeper.pc = "idle" /\ done
  /\ sweeper' = [sweeper EXCEPT !.pc = "stopped"]
  /\ UNCHANGED <<static, registry, queues, pumps, initial, shutdown, store,
                 aware, done, broadcast, hub, connClosed, panicked>>

\* cleanup, lines 281-287: the nested range reaches a stale session (in an
\* unspecified order) and sends it on the unbuffered sm.unregister (line
\* 285), with sm.mu held.
cleanup_Visit(s) ==
  /\ Running /\ sweeper.pc = "range" /\ s \in sweeper.todo
  /\ sweeper' = [sweeper EXCEPT !.pc = "send", !.session = s,
                                !.todo = @ \ {s}]
  /\ UNCHANGED <<static, registry, queues, pumps, initial, shutdown, store,
                 aware, done, broadcast, hub, connClosed, panicked>>

\* cleanup, lines 289-294: the ranges are over; empty rooms are deleted and
\* the deferred Unlock runs.
cleanup_Return ==
  /\ Running /\ sweeper.pc = "range" /\ sweeper.todo = {}
  /\ documents' = RemoveEmptyRooms(documents)
  /\ mu' = "none"
  /\ sweeper' = SweeperIdle
  /\ UNCHANGED <<static, queues, pumps, initial, shutdown, store, aware,
                 done, broadcast, hub, connClosed, panicked>>

\* ------------------------------------------------------------ Shutdown
\* Shutdown, line 300: close(sm.done).
Shutdown_CloseDone ==
  /\ Running /\ shutdown.pc = "idle"
  /\ done' = TRUE
  /\ shutdown' = [shutdown EXCEPT !.pc = "lock"]
  /\ UNCHANGED <<static, registry, queues, pumps, initial, sweeper, store,
                 aware, broadcast, hub, connClosed, panicked>>

\* Shutdown, lines 302-303: sm.mu.Lock().
Shutdown_Lock ==
  /\ Running /\ shutdown.pc = "lock" /\ Unlocked
  /\ mu' = "shutdown"
  /\ shutdown' = [pc |-> "range", todo |-> Registered]
  /\ UNCHANGED <<static, documents, queues, pumps, initial, sweeper, store,
                 aware, done, broadcast, hub, connClosed, panicked>>

\* Shutdown, lines 306-311: close(session.Send); session.Conn.Close().
Shutdown_Close(s) ==
  /\ Running /\ shutdown.pc = "range" /\ s \in shutdown.todo
  /\ IF sendClosed[s]
     THEN Panic("shutdown")
     ELSE /\ sendClosed' = [sendClosed EXCEPT ![s] = TRUE]
          /\ connClosed' = [connClosed EXCEPT ![s] = TRUE]
          /\ shutdown' = [shutdown EXCEPT !.todo = @ \ {s}]
          /\ UNCHANGED <<static, registry, Send, enqueued, pumps, initial,
                         sweeper, store, aware, done, broadcast, hub,
                         panicked>>

\* A Shutdown that leaves the closed sessions in the registry.
AfterShutdown_Keeps(docs) == docs

\* Shutdown, line 313: sm.documents = make(...), whatever it held.
AfterShutdown(docs) == EmptyMap

\* Shutdown, lines 313-315: a fresh registry; the deferred Unlock runs.
Shutdown_Return ==
  /\ Running /\ shutdown.pc = "range" /\ shutdown.todo = {}
  /\ documents' = AfterShutdown(documents)
  /\ mu' = "none"
  /\ shutdown' = [pc |-> "done", todo |-> {}]
  /\ UNCHANGED <<static, queues, pumps, initial, sweeper, store, aware,
                 done, broadcast, hub, connClosed, panicked>>

\* ------------------------------------------------------ specifications
\* The steps of the system, for the connections in S.
HubStep(S) ==
  \/ \E s \in S : HandleDocumentConnection(s)
  \/ \E s \in S : HubRecvUnregisterFromReadPump(s)
  \/ HubRecvBroadcast
  \/ handleRegister_Add
  \/ handleRegister_Announce
  \/ handleUnregister_Remove
  \/ handleUnregister_Awareness
  \/ handleUnregister_Announce
  \/ handleBroadcast_Read
  \/ \E s \in S : handleBroadcast_Visit(s)
  \/ handleBroadcast_Return

SessionStep(S) ==
  \/ \E s \in S : sendInitialState_Begin(s, TRUE)
  \/ \E s \in S : ReadPump_Error(s)
  \/ \E s \in S : WritePump_Write(s)
  \/ \E s \in S : WritePump_Exit(s)

FrameStep(S) ==
  \/ \E s \in S : ReadPump_Read(s, FALSE)
  \/ \E s \in S : Broadcast(s)

SweeperStep(S) ==
  \/ \E s \in S : ReadPump_Pong(s)
  \/ cleanupLoop_Tick
  \/ \E s \in S : cleanup_Visit(s)
  \/ cleanup_Return
  \/ HubRecvUnregisterFromCleanup

ShutdownStep(S) ==
  \/ Shutdown_CloseDone
  \/ Shutdown_Lock
  \/ \E s \in S : Shutdown_Close(s)
  \/ Shutdown_Return
  \/ HubDone
  \/ cleanupLoop_Done

ReplayStep(S) ==
  \/ \E s \in S : sendInitialState_Begin(s, FALSE)
  \/ \E s \in S : ReadPump_Read(s, TRUE)
  \/ \E s \in S : sendInitialState_Replay(s)
  \/ \E s \in S : sendInitialState_GetAwareness(s)

AwarenessStep(S) ==
  \/ \E d \in Docs, c \in ClientIDs, st \in AwStates : UpdateAwareness(d, c, st)
  \/ \E s \in S : sendInitialState_SendAwareness(s)

\* Frames other than document updates.
ProtocolStep(S) ==
  \E s \in S, stored \in BOOLEAN, kind \in FrameKinds \ {"update"} :
    ReadPump_ReadFrame(s, stored, kind)

\* Two connections only.
Two == {"s1", "s2"}

\* Three connections, the hub and the pumps; no repository is wired.
Next == HubStep(Sessions) \/ SessionStep(Sessions) \/ FrameStep(Sessions)
Spec == InitWith(FALSE, {0}) /\ [][Next]_vars

\* Two connections, with the sweeper and Shutdown; no repository is wired.
NextLifecycle ==
  \/ HubStep(Two) \/ SessionStep(Two) \/ FrameStep(Two)
  \/ SweeperStep(Two) \/ ShutdownStep(Two)
SpecLifecycle == InitWith(FALSE, {0}) /\ [][NextLifecycle]_vars

\* The same without payload frames (the queues carry the announcements) and
\* with the write loops scheduled: a WritePump goroutine that can take a
\* step takes it (its writes carry a 10 s deadline, lines 382 and
\* 406, and its ticker fires every 54 s, line 373).
NextWritePump ==
  \/ HubStep(Two) \/ SessionStep(Two) \/ SweeperStep(Two) \/ ShutdownStep(Two)
SpecWritePump ==
  /\ InitWith(FALSE, {0}) /\ [][NextWritePump]_vars
  /\ \A s \in Two : WF_vars(WritePump_Write(s)) /\ WF_vars(WritePump_Exit(s))

\* Two connections, with the Update Log and the awareness store.
NextSync ==
  \/ HubStep(Two) \/ SessionStep(Two) \/ FrameStep(Two)
  \/ ReplayStep(Two) \/ AwarenessStep(Two)
SpecSync == InitWith(TRUE, {0, MaxHistory}) /\ [][NextSync]_vars

\* Two connections with the Update Log, channels that hold two elements and
\* two frames: the order of delivery.
FifoLimits == [send |-> FifoSendCap, broadcast |-> FifoBroadcastCap,
               frames |-> FifoPayloads]
NextFifo ==
  \/ HubStep(Two) \/ SessionStep(Two) \/ FrameStep(Two) \/ ReplayStep(Two)
SpecFifo == InitOf(TRUE, {0}, FifoLimits) /\ [][NextFifo]_vars

\* Two connections with the Update Log and frames of every kind.  Nothing
\* in the program calls UpdateAwareness, so the awareness store is what
\* NewSessionManager made it.
NextProtocol ==
  \/ HubStep(Two) \/ SessionStep(Two) \/ FrameStep(Two) \/ ReplayStep(Two)
  \/ ProtocolStep(Two)
SpecProtocol == InitWith(TRUE, {0}) /\ [][NextProtocol]_vars


\* ================================================================ claims
\* The broadcast the hub has in hand: handleBroadcast has read the room and
\* has not returned.
Processing == hub.pc \in {"bc_range", "bc_unregister"}
\* S \ {s}: the members read at line 194, without the excluded sender.
Recipients == hub.snap \ {hub.bmsg.sender}
\* The range loop has nothing left to send: handleBroadcast is returning.
FanOutOver == hub.pc = "bc_range" /\ hub.todo \ {hub.bmsg.sender} = {}
\* The messages a hub fan-out puts on queues.
FannedOut == {"update", "join", "leave"}

C2_BackpressureDoesNotBlock ==
  hub.pc = "bc_unregister" => ENABLED HubStep(Sessions)

\* C3: a full queue affects only its session: where the hub stops for a
\* saturated member, every other non-excluded member with space in its
\* queue has the payload, and the session being evicted is not the sender.
C3_OthersStillServed ==
  hub.pc = "bc_unregister" =>
    /\ hub.session # hub.bmsg.sender
    /\ \A m \in Recipients \ {hub.session} :
         m \in hub.delivered \/ ~CanEnqueue(Send[m])

\* C7: the leave announcement of a departed session reaches every session
\* that remains in its room: the hub does not stop on the announcement with
\* a remaining member unserved.
C7_LeaveReachesRemaining ==
  (hub.pc = "bc_unregister" /\ hub.bmsg.msg.type = "leave") =>
    \A m \in Room(hub.bmsg.doc) \ {hub.session} : m \in hub.delivered

\* C8: the join announcement of a new session reaches every session that
\* was and still is a member of its room: the hub does not stop on the
\* announcement with such a member unserved.
C8_JoinReachesMembers ==
  (hub.pc = "bc_unregister" /\ hub.bmsg.msg.type = "join") =>
    \A m \in (Recipients \cap Room(hub.bmsg.doc)) \ {hub.session} :
      m \in hub.delivered

\* C4: once the hub has processed Unregister(s) for a registered session,
\* s is in no room and GetAwareness of its document has no entry for its
\* client id.
C4_UnregisterRemoves ==
  /\ [](hub.pc \in {"unreg_aware", "unreg_send"} => hub.session \notin Registered)
  /\ [][(hub.pc = "unreg_aware" /\ hub'.pc = "unreg_send") =>
          /\ hub.session \notin Registered'
          /\ ClientID(hub.session) \notin
               DOMAIN GetAwareness(docOf[hub.session])']_vars

\* C4 witness: Unregister has removed the session and the only awareness
\* entry of its document.
C4_Witness ==
  /\ hub.pc = "unreg_send" /\ hub.session \notin Registered
  /\ docOf[hub.session] \in DOMAIN awareness
  /\ DOMAIN awareness[docOf[hub.session]] = {}

\* C5: whenever sm.mu is free, a document id is a key of the registry
\* exactly when it has a member (a key never maps to an empty set).
C5_RoomIffMembers ==
  mu = "none" => \A d \in DOMAIN documents : documents[d] # {}

\* C5 witness: the last member of d1 has left and its room is gone, while
\* the room d2 is still there.
C5_Witness ==
  /\ mu = "none" /\ sendClosed["s1"] /\ docOf["s1"] = "d1"
  /\ DOMAIN documents = {"d2"}

\* C6: handling Unregister for a session that is in no room changes
\* nothing: registry, awareness store, queues and their closed marks and
\* the broadcast channel stay as they are, and the hub does not panic on a
\* second close.
C6_UnregisterIdempotent ==
  [][(hub.pc = "unreg_lock" /\ hub.session \notin Registered) =>
       /\ panicked' # "hub"
       /\ hub' # hub =>
            /\ hub'.pc = "select"
            /\ UNCHANGED <<documents, awareness, Send, sendClosed, broadcast>>]_vars

\* C6 witness: the hub is about to handle Unregister for a session that was
\* registered and has already been removed.
C6_Witness ==
  /\ hub.pc = "unreg_lock" /\ mu = "none"
  /\ hub.session \notin Registered /\ sendClosed[hub.session]

\* C9: when the replay loop of sendInitialState is over, every update read
\* from the log has been enqueued, in order.
C9_ReplayComplete ==
  \A s \in Sessions :
    (handler[s] \in {"aware_send", "running"}
       \/ (handler[s] = "replay" /\ sync[s].todo = <<>>))
    => sync[s].sent = sync[s].all

\* C10: a sweep completes: while cleanup waits to hand a stale session to
\* the hub (line 285, sm.mu held), the hub - unless Shutdown has stopped it
\* or it is held at line 209 - can take a step, or take the session.
C10_SweepCompletes ==
  (sweeper.pc = "send" /\ hub.pc \notin {"stopped", "bc_unregister"}) =>
    ENABLED (HubStep(Two) \/ HubRecvUnregisterFromCleanup)

\* Lemma used by C10: cleanup waiting at line 285 for a hub that waits for
\* sm.mu stays there with sm.mu held, and so does the hub.
SweeperDeadlockStays ==
  [][(sweeper.pc = "send" /\ hub.pc \in {"reg_lock", "unreg_lock", "bc_rlock"})
       => (sweeper'.pc = "send" /\ mu' = mu /\ hub' = hub)]_vars

\* Lemma used by C2, C3, C7, C8: the hub never leaves line 209.
HubStaysAtUnregister ==
  [][hub.pc = "bc_unregister" => hub'.pc = "bc_unregister"]_vars

\* C11: once Shutdown has returned, the room registry is empty, and it
\* stays empty: the hub applies no registration afterwards.
C11_EmptyAfterShutdown ==
  shutdown.pc = "done" => documents = EmptyMap

\* C12: Shutdown closes every session's queue and connection and the
\* sweeper stops: when Shutdown waits for sm.mu (line 302) and the sweeper
\* holds it while the hub has left its loop, the sweeper can go on to
\* release it.
C12_ShutdownClosesAll ==
  (shutdown.pc = "lock" /\ mu = "sweeper" /\ hub.pc = "stopped") =>
    ENABLED ((\E s \in Two : cleanup_Visit(s)) \/ cleanup_Return)

\* Lemma used by C12: Shutdown waiting for sm.mu, the sweeper waiting at
\* line 285 with sm.mu held and the hub gone: all three stay as they are,
\* and the registered sessions keep their open queues.
ShutdownDeadlockStays ==
  [][(shutdown.pc = "lock" /\ sweeper.pc = "send" /\ hub.pc = "stopped")
       => (shutdown' = shutdown /\ sweeper'.pc = "send" /\ mu' = mu
           /\ hub' = hub /\ documents' = documents
           /\ \A s \in Registered : sendClosed'[s] = sendClosed[s])]_vars

\* C13: the hub suspends only at its command intake: inside a handler,
\* with sm.mu free or its own and room on sm.broadcast, the hub can take
\* its next step.
C13_SuspendsOnlyAtIntake ==
  (Running /\ hub.pc \notin {"select", "stopped"}
     /\ mu \in {"none", "hub"} /\ HasRoom(broadcast))
    => ENABLED HubStep(Sessions)

\* The payloads of client frames in the history of a queue.
IsPayload(e) == e.msg.type = "update" /\ e.msg.from \in Sessions

\* C14 as stated: if s produced P before Q (P has the smaller sequence
\* number), no queue is given Q and later P, however they got there.
C14_FifoPerSender ==
  \A x \in Sessions : \A i, j \in 1..Len(enqueued[x]) :
    (i < j /\ IsPayload(enqueued[x][i]) /\ IsPayload(enqueued[x][j])
       /\ enqueued[x][i].msg.from = enqueued[x][j].msg.from)
    => enqueued[x][i].msg.seq <= enqueued[x][j].msg.seq

\* C14, amended: among the payloads the hub's fan-out puts on a queue,
\* those of one sender come in the order in which the sender produced them.
C14_FifoPerSenderFanOut ==
  \A x \in Sessions : \A i, j \in 1..Len(enqueued[x]) :
    (i < j /\ IsPayload(enqueued[x][i]) /\ IsPayload(enqueued[x][j])
       /\ enqueued[x][i].by = "hub" /\ enqueued[x][j].by = "hub"
       /\ enqueued[x][i].msg.from = enqueued[x][j].msg.from)
    => enqueued[x][i].msg.seq < enqueued[x][j].msg.seq

\* C14 witness: a queue has been given two payloads of one sender by the
\* fan-out, and both were waiting on sm.broadcast together before.
C14_Witness ==
  \E x \in Sessions : \E i, j \in 1..Len(enqueued[x]) :
    /\ i < j /\ IsPayload(enqueued[x][i]) /\ IsPayload(enqueued[x][j])
    /\ enqueued[x][i].by = "hub" /\ enqueued[x][j].by = "hub"
    /\ enqueued[x][i].msg.from = enqueued[x][j].msg.from
    /\ enqueued[x][i].msg.seq < enqueued[x][j].msg.seq

\* C15: a session whose history read has failed still receives the
\* awareness state of its room: sendInitialState does not go from its
\* first statement straight to the end while the room has awareness state.
C15_FailedReplayStillSendsAwareness ==
  [][\A s \in Sessions :
       (yjsRepo /\ handler[s] = "initial_state" /\ handler'[s] = "running")
       => AwarenessIsNil(docOf[s])]_vars

\* C16: whether the append to the Update Log succeeds or fails, the frame
\* read is the next thing the ReadPump submits to sm.broadcast, with the
\* session as the sender to exclude, and the pump then reads again.
C16_AppendFailureStillBroadcasts ==
  [][\A s \in Sessions :
       /\ (readPump[s] = "read" /\ nsent' # nsent /\ readPump'[s] # "read")
          => /\ readPump'[s] = "broadcast"
             /\ readMsg'[s] = [type |-> "update", from |-> s, seq |-> nsent']
       /\ (readPump[s] = "read" /\ readMsg'[s] # readMsg[s])
          => readPump'[s] = "broadcast"
       /\ (readPump[s] = "broadcast" /\ readPump'[s] # "broadcast")
          => /\ readPump'[s] = "read"
             /\ broadcast' = Append(broadcast,
                  [doc |-> docOf[s], msg |-> readMsg[s], sender |-> s])]_vars

\* C16 witness: a frame whose append failed (it is not in the log) waits on
\* sm.broadcast with its sender excluded, and the sender reads again.
C16_Witness ==
  \E s \in Sessions : \E i \in 1..Len(broadcast) :
    /\ yjsRepo /\ readPump[s] = "read"
    /\ broadcast[i].sender = s /\ broadcast[i].msg.type = "update"
    /\ \A k \in 1..Len(updateLog[docOf[s]]) :
         updateLog[docOf[s]][k] # broadcast[i].msg

\* C17: what GetAwareness returned to sendInitialState does not change
\* afterwards: the map the handler holds is as it was when it was returned.
C17_GetAwarenessSnapshot ==
  \A s \in Sessions :
    handler[s] = "aware_send" => HeldAwareness(s) = sync[s].aware

\* C18: every entry of the awareness store belongs to a session that is
\* registered in the room of that document.
C18_AwarenessOnlyForMembers ==
  \A d \in DOMAIN awareness : \A c \in DOMAIN awareness[d] :
    \E s \in Room(d) : ClientID(s) = c

\* C19: a session is in no room but the one keyed by its own document id
\* (so in at most one room).
C19_OnlyOwnRoom ==
  \A d \in DOMAIN documents : \A s \in documents[d] : docOf[s] = d

\* C19 witness: two rooms with three members between them.
C19_Witness ==
  /\ DOMAIN documents = {"d1", "d2"}
  /\ Cardinality(documents["d1"] \cup documents["d2"]) = 3

\* The goroutines that are inside a section that mutates the registry.
HubMutating == hub.pc \in {"reg_send", "unreg_aware", "unreg_send"}
SweeperMutating == sweeper.pc \in {"range", "send"}
ShutdownMutating == shutdown.pc = "range"

\* C20: a goroutine inside a mutation of the registry holds sm.mu, so no
\* two are inside at once; the registry changes only in a step of the
\* holder, and handleBroadcast reads it only when no mutation is going on.
C20_MutationsExclusive ==
  /\ [](/\ HubMutating => mu = "hub"
        /\ SweeperMutating => mu = "sweeper"
        /\ ShutdownMutating => mu = "shutdown")
  /\ [][/\ documents' # documents => (mu # "none" \/ mu' # "none")
        /\ (hub.pc = "bc_rlock" /\ hub'.pc = "bc_range")
             => (~SweeperMutating /\ ~ShutdownMutating)]_vars

\* C20 witness: the sweeper is inside cleanup while the hub, with a command
\* in hand, and Shutdown both wait for sm.mu.
C20_Witness ==
  /\ SweeperMutating /\ mu = "sweeper"
  /\ hub.pc \in {"reg_lock", "unreg_lock"}
  /\ shutdown.pc = "lock"

\* C21: the sweeper does not change the registry: no step of cleanup or
\* cleanupLoop changes sm.documents (also not the one that ends the scan),
\* and whenever the registry changes, the hub or Shutdown has taken a step.
C21_SweepLeavesRegistry ==
  [][/\ (sweeper'.pc # sweeper.pc /\ hub' = hub) => documents' = documents
     /\ documents' # documents => (hub' # hub \/ shutdown' # shutdown)]_vars

\* C21 witness: a sweep that handed a stale session to the hub is over
\* and has released sm.mu; the session is still in its room, waiting for
\* the hub's handleUnregister.
C21_Witness ==
  /\ sweeper.pc = "idle" /\ mu = "none"
  /\ hub.pc = "unreg_lock" /\ hub.session \in Registered
  /\ readPump[hub.session] # "done"

\* The handler is inside sendInitialState for the session.
InInitialState(s) == handler[s] \in {"initial_state", "replay", "aware_send"}

\* C22: initial-state delivery does not hold up the hub: while the hub
\* deals with a command that concerns a session whose initial state is
\* being delivered, with sm.mu free or its own and room on sm.broadcast, it
\* can take its next step.
C22_HubNotHeldByInitialState ==
  \A s \in Sessions :
    (Running /\ InInitialState(s) /\ hub.session = s
       /\ hub.pc \notin {"select", "stopped"}
       /\ mu \in {"none", "hub"} /\ HasRoom(broadcast))
    => ENABLED HubStep(Two)

\* C23: a session whose read loop has ended on an error and which is still
\* registered is not left waiting for a hub that will never take it.
C23_ReadErrorUnregisters ==
  \A s \in Sessions :
    (readPump[s] = "unregister" /\ s \in Registered)
    => hub.pc # "bc_unregister"

\* C30: neither the hub's fan-out nor the handler's initial-state delivery
\* sends on a session.Send that has been closed (such a send panics).
C30_NoSendOnClosed ==
  /\ ~(panicked = "hub" /\ hub.pc = "bc_range")
  /\ panicked # "handler"

\* C24: once the queue of a session is closed or its connection has failed
\* while its write loop runs, the write loop returns and the connection is
\* closed (unless a panic ends the process first).
C24_WriteLoopTerminates ==
  \A s \in Two :
    (writePump[s] = "write" /\ (sendClosed[s] \/ connClosed[s]))
      ~> ((writePump[s] = "done" /\ connClosed[s]) \/ ~Running)

\* C24 witness: the write loop of a session has returned after its queue
\* was closed by handleUnregister, and the connection is closed, while the
\* other session is still served.
C24_Witness ==
  \E s \in Two :
    /\ writePump[s] = "done" /\ connClosed[s] /\ sendClosed[s]
    /\ shutdown.pc = "idle" /\ Running
    /\ readPump[s] # "done"

\* C25: an awareness update sent by a client is never appended to the
\* Update Log and so is not in any later replay.
C25_AwarenessNotLogged ==
  /\ \A d \in Docs : \A i \in 1..Len(updateLog[d]) :
       updateLog[d][i].type # "awareness"
  /\ \A x \in Sessions : \A i \in 1..Len(enqueued[x]) :
       enqueued[x][i].by = "handler" =>
         ~(enqueued[x][i].msg.type = "awareness" /\ ClientMade(enqueued[x][i].msg))

\* C26: join and leave messages come from the hub only: no queue is ever
\* given a join or leave message that a client sent.
C26_JoinLeaveHubOnly ==
  \A x \in Sessions : \A i \in 1..Len(enqueued[x]) :
    enqueued[x][i].msg.type \in {"join", "leave"} =>
      ~ClientMade(enqueued[x][i].msg)

\* C27: once the hub has fanned out the awareness update of a session that
\* is still registered, the awareness of its document has an entry under
\* the session's client id.
C27_AwarenessStored ==
  \A s \in Registered :
    (\E x \in Sessions : \E i \in 1..Len(enqueued[x]) :
       /\ enqueued[x][i].msg.type = "awareness"
       /\ enqueued[x][i].msg.from = s)
    => /\ ~AwarenessIsNil(docOf[s])
       /\ ClientID(s) \in DOMAIN GetAwareness(docOf[s])

\* C28: when the awareness query of a session has gone through the server
\* (it has reached another member, the hub is idle, nothing is pending and
\* the session's read loop is back at reading), the session's own queue has
\* been given an awareness snapshot.
C28_QueryAnswered ==
  \A s \in Sessions :
    (/\ \E x \in Sessions : \E i \in 1..Len(enqueued[x]) :
          enqueued[x][i].msg.type = "query" /\ enqueued[x][i].msg.from = s
     /\ hub.pc = "select" /\ broadcast = <<>> /\ readPump[s] = "read")
    => \E j \in 1..Len(enqueued[s]) : enqueued[s][j].msg = AwarenessMsg

\* C29: a frame that violates the protocol is not broadcast: it is never
\* handed to the hub and never put on a queue.
C29_ViolationNotBroadcast ==
  /\ \A i \in 1..Len(broadcast) : broadcast[i].msg.type # "malformed"
  /\ \A x \in Sessions : \A i \in 1..Len(enqueued[x]) :
       enqueued[x][i].msg.type # "malformed"

\* C31: no session.Send is closed twice: neither handleUnregister nor
\* Shutdown reaches its close with a queue that is closed already (a
\* second close panics), and a registered session's queue is open unless
\* Shutdown holds sm.mu.
C31_ClosedAtMostOnce ==
  /\ panicked # "shutdown"
  /\ ~(panicked = "hub" /\ hub.pc = "unreg_lock")
  /\ \A s \in shutdown.todo : ~sendClosed[s]
  /\ mu # "shutdown" => \A s \in Registered : ~sendClosed[s]

\* C31 witness: Shutdown has closed the queues and returned; the hub, which
\* has not seen sm.done yet, is about to handle the Unregister of a session
\* whose queue is closed.
C31_Witness ==
  /\ Running /\ hub.pc = "unreg_lock" /\ mu = "none"
  /\ sendClosed[hub.session] /\ shutdown.pc = "done"

\* The hub is inside handleRegister or handleUnregister at the send of the
\* announcement on sm.broadcast (lines 141 and 182), holding sm.mu.
Announcing == hub.pc \in {"reg_send", "unreg_send"}

\* C32: handleRegister and handleUnregister complete whatever sm.broadcast
\* holds: at the send of the join or leave announcement the hub can take
\* its step.
C32_AnnounceCompletes ==
  (Running /\ Announcing) => ENABLED HubStep(Sessions)

\* Lemma for C32: with sm.broadcast full at the announcement, the hub, the
\* channel and sm.mu stay as they are: only the hub receives from
\* sm.broadcast.
HubStaysAtAnnounce ==
  [][(Announcing /\ ~HasRoom(broadcast))
       => (hub' = hub /\ broadcast' = broadcast /\ mu' = mu)]_vars

\* The next step of the connection handler inside sendInitialState.
HandlerStep(s) ==
  \/ sendInitialState_Begin(s, TRUE)
  \/ sendInitialState_Begin(s, FALSE)
  \/ sendInitialState_Replay(s)
  \/ sendInitialState_GetAwareness(s)
  \/ sendInitialState_SendAwareness(s)

\* C33: initial-state delivery terminates: wherever the handler is inside
\* sendInitialState, it can take its next step, so that it reaches the
\* start of the pumps.
C33_InitialStateTerminates ==
  \A s \in Two : (Running /\ InInitialState(s)) => ENABLED HandlerStep(s)

\* Lemma for C33: a handler at the send of line 146 with the queue full
\* stays there: the queue is drained by WritePump only, which the handler
\* has not started.
HandlerStaysAtAwareness ==
  [][\A s \in Two :
       (handler[s] = "aware_send" /\ ~CanEnqueue(Send[s]) /\ ~sendClosed[s])
         => (handler'[s] = "aware_send" /\ Send'[s] = Send[s]
               /\ writePump'[s] = "off")]_vars

\* The payloads of sender a that are in the Update Log of its document and
\* that the hub has finished fanning out: the ReadPump has handed them to
\* sm.broadcast and the hub has taken them from it and returned.
Settled(a) ==
  { m \in {updateLog[docOf[a]][i] : i \in 1..Len(updateLog[docOf[a]])} :
      /\ m.from = a
      /\ readMsg[a] # m
      /\ \A i \in 1..Len(broadcast) : broadcast[i].msg # m
      /\ hub.bmsg.msg # m }

\* What a queue has been given so far.
Received(c) == {enqueued[c][i].msg : i \in 1..Len(enqueued[c])}

\* The session has joined: it is registered, its initial state has been
\* delivered without dropping an update, and its pumps run.
Joined(c) ==
  /\ c \in Registered /\ handler[c] = "running"
  /\ Len(sync[c].sent) = Len(sync[c].all)

\* C34 as stated: a payload that a member persisted and broadcast is on the
\* queue of every session that has joined the document without overflow,
\* through the replay or through the fan-out.
C34_NoUpdateMissed ==
  \A a \in Two, c \in Two :
    (a # c /\ docOf[a] = docOf[c] /\ Joined(c))
    => Settled(a) \subseteq Received(c)

\* C34, amended: the same for a session whose read of the Update Log
\* (GetAllUpdates) succeeded.
C34_NoUpdateMissedAfterReplay ==
  \A a \in Two, c \in Two :
    (a # c /\ docOf[a] = docOf[c] /\ Joined(c) /\ ~sync[c].err)
    => Settled(a) \subseteq Received(c)

\* C34 witness: a session has joined with a successful read of the log,
\* and a payload of the other member that was not in the log then has
\* reached it through the fan-out.
C34_Witness ==
  \E a \in Two, c \in Two :
    /\ a # c /\ docOf[a] = docOf[c] /\ Joined(c) /\ ~sync[c].err
    /\ \E m \in Settled(a) :
         /\ \A i \in 1..Len(sync[c].all) : sync[c].all[i] # m
         /\ \E i \in 1..Len(enqueued[c]) :
              enqueued[c][i].msg = m /\ enqueued[c][i].by = "hub"

\* C35: the step of handleUnregister that removes the awareness entry of
\* the leaving session leaves the entry of every other session registered
\* in the room as it was, whatever client ids the sessions carry.
C35_OnlyOwnEntry ==
  [][hub.pc = "unreg_aware" =>
       \A x \in Registered \ {hub.session} :
         (/\ docOf[x] = docOf[hub.session]
          /\ docOf[x] \in DOMAIN awareness
          /\ ClientID(x) \in DOMAIN awareness[docOf[x]])
         => /\ docOf[x] \in DOMAIN awareness'
            /\ ClientID(x) \in DOMAIN awareness'[docOf[x]]
            /\ awareness'[docOf[x]][ClientID(x)] = awareness[docOf[x]][ClientID(x)]]_vars

\* C36: on every queue that is given the join announcement of s and a
\* payload sent by s, the announcement comes first.
C36_JoinBeforePayload ==
  \A x \in Sessions : \A i, j \in 1..Len(enqueued[x]) :
    (/\ IsPayload(enqueued[x][j]) /\ enqueued[x][j].by = "hub"
     /\ enqueued[x][i].msg = JoinMsg(enqueued[x][j].msg.from))
    => i < j

\* C37: on every queue that is given the leave announcement of s and a
\* payload sent by s, the payload comes first.
C37_PayloadBeforeLeave ==
  \A x \in Sessions : \A i, j \in 1..Len(enqueued[x]) :
    (/\ IsPayload(enqueued[x][j]) /\ enqueued[x][j].by = "hub"
     /\ enqueued[x][i].msg = LeaveMsg(enqueued[x][j].msg.from))
    => j < i

\* C38: a read loop that has ended and waits to hand its session to the
\* hub (line 323) is not left with a hub that has returned from its loop.
C38_UnregisterAcceptedOrAbandoned ==
  \A s \in Sessions : readPump[s] = "unregister" => hub.pc # "stopped"

\* Lemma for C38: the hub that has returned does not come back, and a
\* ReadPump waiting at line 323 while the hub is stopped stays there.
ReadPumpStaysAtUnregister ==
  [][\A s \in Sessions :
       (readPump[s] = "unregister" /\ hub.pc = "stopped")
         => (readPump'[s] = "unregister" /\ hub'.pc = "stopped")]_vars

\* C39: the write loop writes every payload as a frame of its own: a step
\* that takes payloads from the queue of a session with an open connection
\* (one NextWriter ... Close, lines 389-403) takes exactly one.
C39_OneFramePerPayload ==
  [][\A s \in Sessions :
       (Len(Send'[s]) < Len(Send[s]) /\ ~connClosed[s])
         => Len(Send'[s]) = Len(Send[s]) - 1]_vars

====
